---- MODULE Spec2Model ----
(***************************************************************************)
(* The forecasting engine of OikosNomos (src/forecast-service): the        *)
(* ForecastModel object (model.py), the file it persists its bundle to,    *)
(* and the FastAPI handlers of main.py that drive it on one event loop.    *)
(*                                                                         *)
(* Numbers are integers: timestamps are whole hours since 1970-01-01T00Z,  *)
(* sines and cosines are scaled by 1000, a rolling mean is scaled by 1000  *)
(* and rounded down, a rolling standard deviation is carried as the        *)
(* sample variance scaled by 1000 (a monotone image of it).                *)
(***************************************************************************)
EXTENDS Integers, Sequences, FiniteSets, TLC

\* ------------------------------------------------------------------ bounds
MaxRows == 2        \* rows of a consumption history
MaxHorizon == 2     \* largest horizon_hours a caller asks for
MaxRuns == 2        \* training runs started per behaviour
MaxRequests == 2    \* request slots of the service

\* ------------------------------------------------------- values and inputs
NaT == -1           \* an unparsable timestamp (pd.NaT after errors='coerce')
NaN == -999         \* the missing-value marker of a numeric column

DefaultTemp == 20
DefaultHumidity == 50

Min(a, b) == IF a <= b THEN a ELSE b
Max(a, b) == IF a >= b THEN a ELSE b
Abs(a) == IF a >= 0 THEN a ELSE 0 - a

Range(s) == {s[i] : i \in 1..Len(s)}

SeqsUpTo(S, n) == UNION {[1..k -> S] : k \in 0..n}

FeatureNames13 ==
    << "hour", "day_of_week", "month", "is_weekend",
       "hour_sin", "hour_cos", "temp_c", "humidity",
       "lag_1h", "lag_24h", "lag_168h",
       "rolling_mean_24h", "rolling_std_24h" >>

\* A consumption history is a data frame: its column names and its rows.  A
\* row carries the timestamp cell and the hour's consumption v in kWh, which
\* the frame shows as total_kwh (v), as avg_power_w (the hour's mean power,
\* 1000 * v watts) or as both, whichever columns it has.
\* pd.DataFrame(), what the database layer returns on a failed query, has no
\* column and no row.
NoFrame == [cols |-> {}, rows |-> << >>]
RawColumns == {"timestamp", "device_category", "power_w", "energy_wh"}
HourlyColumns == {"timestamp", "total_kwh", "avg_power_w"}

\* k hourly rows, the first `bad` of them with an unparsable timestamp.
Series(k, bad) ==
    [i \in 1..k |-> [ts |-> IF i <= bad THEN NaT ELSE i - 1, v |-> i % 2]]

FramesOver(colsets) ==
    { [cols |-> c, rows |-> Series(k, bad)] :
        c \in colsets, k \in 0..MaxRows, bad \in 0..1 }

\* What a caller of the engine passes, what get_recent_readings returns and
\* what get_historical_data returns.
Histories ==
    {NoFrame} \cup
    { [cols |-> c, rows |-> Series(k, 0)] :
        c \in {{"timestamp", "total_kwh"}, {"timestamp", "avg_power_w"}},
        k \in 0..MaxRows } \cup
    { [cols |-> {"timestamp", "total_kwh"}, rows |-> Series(MaxRows, 1)] }
RecentReadings == {NoFrame} \cup FramesOver({RawColumns})
HistoricalData == {NoFrame} \cup FramesOver({HourlyColumns})

\* Histories that end just before the hour, the day, the weekend and the
\* month turn: hours since 1970-01-01 00:00, a Thursday; 47 is Friday 23:00
\* and 743 is 31 January 23:00.
SeedStarts == {0, 23, 47, 743}

SeedHistories ==
    { [cols |-> {"timestamp", "total_kwh"},
       rows |-> [i \in 1..k |-> [ts |-> s + i - 1, v |-> i % 2]]] :
        s \in SeedStarts, k \in 1..MaxRows }

\* Hourly histories of exactly as many rows as a lag offset and of one row
\* more: the shortest that leave a lag column all missing, and the shortest
\* that give it one value.
LagOffsets == {1, 24, 168}

LagHistories ==
    { [cols |-> {"timestamp", "total_kwh"},
       rows |-> [i \in 1..n |-> [ts |-> i - 1, v |-> i % 5]]] :
        n \in {k + d : k \in LagOffsets, d \in {0, 1}} }

\* Any frame a caller can hand to create_features or train: the rows in any
\* order, timestamps repeated or unparsable, with or without the timestamp
\* column and the reading columns.
TimestampCells == {NaT} \cup 0..(MaxRows - 1)

RowsOf(cells) == [i \in 1..Len(cells) |-> [ts |-> cells[i], v |-> i % 2]]

Frames ==
    {NoFrame} \cup
    { [cols |-> c, rows |-> RowsOf(cells)] :
        c \in { {"timestamp", "total_kwh"}, {"timestamp", "avg_power_w"},
                {"total_kwh"} },
        cells \in SeqsUpTo(TimestampCells, MaxRows) }

\* A frame out of order with an unparsable timestamp between two good ones.
Shuffled ==
    [cols |-> {"timestamp", "total_kwh"}, rows |-> RowsOf(<< 1, NaT, 0 >>)]

\* A weather frame: columns, rows, whether its timestamps carry a time zone
\* (a tz-naive column stays tz-naive through pd.to_datetime) and the dtype of
\* its timestamp column: datetime64 as the database returns it, or object
\* for ISO 8601 strings.
EmptyWeather == [cols |-> {}, rows |-> << >>, aware |-> TRUE, dtype |-> "datetime64"]

Weathers ==
    { EmptyWeather,
      [cols |-> {"timestamp", "temp_c", "humidity"},
       rows |-> << [ts |-> 0, temp_c |-> 5, humidity |-> 80] >>, aware |-> TRUE, dtype |-> "datetime64"],
      [cols |-> {"timestamp", "temp_c", "humidity"},
       rows |-> << [ts |-> 0, temp_c |-> 5, humidity |-> 80] >>, aware |-> FALSE, dtype |-> "datetime64"] }

\* Weather frames of any shape: also without the temperature or the
\* humidity column, and with several observations.
WeatherFrames ==
    Weathers \cup
    { [cols |-> {"timestamp", "humidity"},
       rows |-> << [ts |-> 0, humidity |-> 80] >>, aware |-> TRUE, dtype |-> "datetime64"],
      [cols |-> {"timestamp", "temp_c"},
       rows |-> << [ts |-> 0, temp_c |-> 5] >>, aware |-> TRUE, dtype |-> "datetime64"],
      [cols |-> {"timestamp", "temp_c", "humidity"},
       rows |-> << [ts |-> 1, temp_c |-> 9, humidity |-> 60],
                   [ts |-> 0, temp_c |-> 5, humidity |-> 80],
                   [ts |-> 1, temp_c |-> 7, humidity |-> 70] >>,
       aware |-> TRUE, dtype |-> "datetime64"] }

\* One observation whose timestamp is an ISO 8601 string with its offset.
StringWeather ==
    [cols |-> {"timestamp", "temp_c", "humidity"},
     rows |-> << [ts |-> 0, temp_c |-> 5, humidity |-> 80] >>,
     aware |-> TRUE, dtype |-> "object"]

\* -------------------------------------------------------- create_features
\* Calendar fields of a timestamp (hours since the epoch, a Thursday).
Hour(ts) == ts % 24
DayOfWeek(ts) == ((ts \div 24) + 3) % 7
IsWeekend(ts) == IF DayOfWeek(ts) \in {5, 6} THEN 1 ELSE 0

\* Days before the first of each month in a 365-day year.
MonthStarts == << 0, 31, 59, 90, 120, 151, 181, 212, 243, 273, 304, 334 >>
Month(ts) ==
    LET d == (ts \div 24) % 365
    IN  CHOOSE m \in 1..12 :
            /\ MonthStarts[m] <= d
            /\ (m = 12 \/ d < MonthStarts[m + 1])

\* 1000 * sin(2*pi*h/24), rounded, for h = 0..23.
SinTable ==
    << 0, 259, 500, 707, 866, 966, 1000, 966, 866, 707, 500, 259,
       0, -259, -500, -707, -866, -966, -1000, -966, -866, -707, -500, -259 >>
HourSin(h) == SinTable[h + 1]
HourCos(h) == SinTable[((h + 6) % 24) + 1]

\* (mutant) the frame left in the order it came in.
Unsorted(s) == s

\* df.sort_values('timestamp'): ascending on field ts, rows of one timestamp
\* in the order they came in.
SortByTs(s) == SortSeq(s, LAMBDA a, b : a.ts < b.ts)

\* A column as the sequence of its values.
AsColumn(f) == SubSeq(f, 1, Len(f))

\* Series.shift(k): the value k rows back, missing for the first k rows.
Shift(col, k) ==
    AsColumn([i \in 1..Len(col) |-> IF i > k THEN col[i - k] ELSE NaN])

RECURSIVE SumOver(_, _, _)
SumOver(col, lo, hi) == IF lo > hi THEN 0 ELSE col[lo] + SumOver(col, lo + 1, hi)

RECURSIVE SumSqOver(_, _, _)
SumSqOver(col, lo, hi) ==
    IF lo > hi THEN 0 ELSE col[lo] * col[lo] + SumSqOver(col, lo + 1, hi)

\* Series.rolling(window=w, min_periods=1).mean()
RollingMean(col, w) ==
    AsColumn([i \in 1..Len(col) |->
        LET lo == Max(1, i - w + 1)
        IN  (1000 * SumOver(col, lo, i)) \div (i - lo + 1)])

\* Series.rolling(window=w, min_periods=1).std(): missing on a window of one
\* row (ddof = 1), else the sample variance.
RollingStd(col, w) ==
    AsColumn([i \in 1..Len(col) |->
        LET lo == Max(1, i - w + 1)
            c == i - lo + 1
            sx == SumOver(col, lo, i)
            sxx == SumSqOver(col, lo, i)
        IN  IF c = 1 THEN NaN
            ELSE (1000 * (c * sxx - sx * sx)) \div (c * (c - 1))])

\* (mutant) no backward fill.
NoBfill(col) == col

\* DataFrame.bfill / ffill / fillna(0) on one column.
Bfill(col) ==
    AsColumn([i \in 1..Len(col) |->
        IF col[i] # NaN THEN col[i]
        ELSE IF \E j \in (i + 1)..Len(col) : col[j] # NaN
             THEN col[CHOOSE j \in (i + 1)..Len(col) :
                        /\ col[j] # NaN
                        /\ \A k \in (i + 1)..(j - 1) : col[k] = NaN]
             ELSE NaN])

Ffill(col) ==
    AsColumn([i \in 1..Len(col) |->
        IF col[i] # NaN THEN col[i]
        ELSE IF \E j \in 1..(i - 1) : col[j] # NaN
             THEN col[CHOOSE j \in 1..(i - 1) :
                        /\ col[j] # NaN
                        /\ \A k \in (j + 1)..(i - 1) : col[k] = NaN]
             ELSE NaN])

Fillna0(col) ==
    AsColumn([i \in 1..Len(col) |-> IF col[i] = NaN THEN 0 ELSE col[i]])

FillColumn(col) == Fillna0(Ffill(Bfill(col)))

\* weather.drop_duplicates('timestamp'): the first row of each timestamp.
DropDuplicateTs(rows) ==
    SelectSeq([i \in 1..Len(rows) |->
                  [row |-> rows[i],
                   first |-> \A j \in 1..(i - 1) : rows[j].ts # rows[i].ts]],
              LAMBDA x : x.first)

\* pd.merge_asof(..., direction='nearest'): the right row closest in time,
\* the earlier one on a tie.  `w` is sorted and has no duplicate timestamp.
NearestWeather(ts, w) ==
    LET best == CHOOSE i \in 1..Len(w) :
                    \A j \in 1..Len(w) :
                        \/ Abs(ts - w[i].ts) < Abs(ts - w[j].ts)
                        \/ (Abs(ts - w[i].ts) = Abs(ts - w[j].ts) /\ w[i].ts <= w[j].ts)
    IN  w[best]

LagColumns ==
    {"lag_1h", "lag_24h", "lag_168h", "rolling_mean_24h", "rolling_std_24h"}
TimeColumns ==
    {"hour", "day_of_week", "month", "is_weekend", "hour_sin", "hour_cos"}

FeatureError(e) == [err |-> e, cols |-> {}, rows |-> << >>]

\* (mutant) the two default assignments with their values exchanged.
DefaultWeatherSwapped(ts) ==
    [ts |-> ts, temp_c |-> DefaultHumidity, humidity |-> DefaultTemp]

\* lines 96-97: the constant weather of a row when nothing is merged.
DefaultWeather(ts) ==
    [ts |-> ts, temp_c |-> DefaultTemp, humidity |-> DefaultHumidity]

\* (mutant) the rows without a timestamp kept.
KeepNaT(rows) == rows

\* lines 60-62: df.dropna(subset=['timestamp']).
DropNaT(rows) == SelectSeq(rows, LAMBDA r : r.ts # NaT)

\* create_features from line 53 on: parsing, cleaning, sorting, the derived
\* columns, the weather and the fills.
BuildFrame(data, weather) ==
    LET parsed == DropNaT(data.rows)
        df == SortByTs(parsed)
        n == Len(df)
        hasKwh == "total_kwh" \in data.cols
        kwh == AsColumn([i \in 1..n |-> df[i].v])
        lag1 == FillColumn(Shift(kwh, 1))
        lag24 == FillColumn(Shift(kwh, 24))
        lag168 == FillColumn(Shift(kwh, 168))
        rmean == FillColumn(RollingMean(kwh, 24))
        rstd == FillColumn(RollingStd(kwh, 24))
        merge == weather.rows # << >> /\ "temp_c" \in weather.cols
        wrows == SortByTs([i \in 1..Len(DropDuplicateTs(weather.rows)) |->
                              DropDuplicateTs(weather.rows)[i].row])
        cols == data.cols \cup TimeColumns \cup {"temp_c", "humidity"}
                    \cup (IF hasKwh THEN LagColumns ELSE {})
        Row(i) ==
            LET ts == df[i].ts
                wx == IF merge THEN NearestWeather(ts, wrows)
                      ELSE DefaultWeather(ts)
            IN  [timestamp |-> ts,
                 total_kwh |-> IF hasKwh THEN df[i].v ELSE NaN,
                 avg_power_w |->
                    IF "avg_power_w" \in data.cols THEN df[i].v * 1000 ELSE NaN,
                 hour |-> Hour(ts),
                 day_of_week |-> DayOfWeek(ts),
                 month |-> Month(ts),
                 is_weekend |-> IsWeekend(ts),
                 hour_sin |-> HourSin(Hour(ts)),
                 hour_cos |-> HourCos(Hour(ts)),
                 temp_c |-> wx.temp_c,
                 humidity |-> wx.humidity,
                 lag_1h |-> IF hasKwh THEN lag1[i] ELSE NaN,
                 lag_24h |-> IF hasKwh THEN lag24[i] ELSE NaN,
                 lag_168h |-> IF hasKwh THEN lag168[i] ELSE NaN,
                 rolling_mean_24h |-> IF hasKwh THEN rmean[i] ELSE NaN,
                 rolling_std_24h |-> IF hasKwh THEN rstd[i] ELSE NaN]
    IN  IF merge /\ ~({"timestamp", "temp_c", "humidity"} \subseteq weather.cols)
            THEN FeatureError("KeyError")
        ELSE IF merge /\ ~weather.aware THEN FeatureError("MergeError")
        ELSE [err |-> "none", cols |-> cols, rows |-> [i \in 1..n |-> Row(i)]]

\* line 86: weather['timestamp'] = pd.to_datetime(weather['timestamp']) on
\* the frame the caller passed.
ParseWeather(weather) == [weather EXCEPT !.dtype = "datetime64"]

\* The caller's weather frame once create_features has returned or raised.
WeatherAfter(data, weather) ==
    IF /\ "timestamp" \in data.cols
       /\ weather.rows # << >>
       /\ {"temp_c", "timestamp"} \subseteq weather.cols
        THEN ParseWeather(weather)
    ELSE weather

\* (mutant) create_features without the check of lines 42-44.
CreateFeaturesUnchecked(data, weather) == BuildFrame(data, weather)

\* ForecastModel.create_features: the frame returned, or the error raised.
CreateFeatures(data, weather) ==
    IF "timestamp" \notin data.cols
        THEN FeatureError("ValueError: 'timestamp' column not found in data")
    ELSE BuildFrame(data, weather)

\* ------------------------------------------------------ the held artifact
Never == -1         \* trained_at = None; the run of the empty metrics dict

\* self.model: None, or a RandomForestRegressor constructed by training run
\* `run` (0: a run of an earlier process), fitted or not.
NoModel == [kind |-> "none", run |-> Never, fitted |-> FALSE]
Forest(run, fitted) == [kind |-> "rf", run |-> run, fitted |-> fitted]

NoMetrics == [keys |-> {}, run |-> Never]
MetricsOf(run) == [keys |-> {"rmse", "mae", "mape"}, run |-> run]

\* ForecastModel.__init__
FreshEngine ==
    [model |-> NoModel, version |-> "v1.0", trained_at |-> Never,
     metrics |-> NoMetrics, feature_names |-> << >>]

\* ForecastModel.is_loaded
IsLoaded(m) == m.kind # "none"

\* -------------------------------------------------- the persisted bundle
BundleKeys == << "model", "version", "trained_at", "metrics", "feature_names" >>

\* (mutant) save that leaves the metrics out of the dict it dumps.
PickleWithoutMetrics(b) ==
    << [k |-> "model", obj |-> b.model],
       [k |-> "version", str |-> b.version],
       [k |-> "trained_at", time |-> b.trained_at],
       [k |-> "feature_names", list |-> b.feature_names],
       [k |-> "STOP"] >>

\* joblib.dump of the dict built by save: one entry per key, in the dict's
\* order, each value under the tag of its type, then the pickle STOP opcode.
Pickle(b) ==
    << [k |-> "model", obj |-> b.model],
       [k |-> "version", str |-> b.version],
       [k |-> "trained_at", time |-> b.trained_at],
       [k |-> "metrics", dict |-> b.metrics],
       [k |-> "feature_names", list |-> b.feature_names],
       [k |-> "STOP"] >>

\* joblib.load: a stream that does not end in STOP cannot be unpickled.
Readable(bytes) == bytes # << >> /\ bytes[Len(bytes)].k = "STOP"
HasKey(bytes, key) == \E i \in 1..Len(bytes) : bytes[i].k = key
Entry(bytes, key) == bytes[CHOOSE i \in 1..Len(bytes) : bytes[i].k = key]

NoFile == [exists |-> FALSE, bytes |-> << >>]
FileOf(bytes) == [exists |-> TRUE, bytes |-> bytes]

\* The number of leading BundleKeys the stream holds: load assigns the held
\* fields in this order and stops at the first key the dict lacks.
RECURSIVE KeysBefore(_, _)
KeysBefore(bytes, i) ==
    IF i > Len(BundleKeys) \/ ~HasKey(bytes, BundleKeys[i]) THEN i - 1
    ELSE KeysBefore(bytes, i + 1)

\* (mutant) a missing file resets the engine to its constructed state.
NotFoundResets(held) ==
    [ok |-> FALSE, out |-> "not found", held |-> FreshEngine]

\* lines 239-241: no file at the path; a warning is logged, False returned.
NotFound(held) == [ok |-> FALSE, out |-> "not found", held |-> held]

\* ForecastModel.load on an engine holding `held`: what it returns and what
\* the engine holds afterwards.
LoadResult(held, file) ==
    IF ~file.exists THEN NotFound(held)
    ELSE IF ~Readable(file.bytes)
        THEN [ok |-> FALSE, out |-> "unreadable", held |-> held]
    ELSE
    LET b == file.bytes
        n == KeysBefore(b, 1)
    IN  [ok |-> n = Len(BundleKeys),
         out |-> IF n = Len(BundleKeys) THEN "loaded" ELSE "KeyError",
         held |->
            [model |-> IF n >= 1 THEN Entry(b, "model").obj ELSE held.model,
             version |-> IF n >= 2 THEN Entry(b, "version").str ELSE held.version,
             trained_at |->
                IF n >= 3 THEN Entry(b, "trained_at").time ELSE held.trained_at,
             metrics |-> IF n >= 4 THEN Entry(b, "metrics").dict ELSE held.metrics,
             feature_names |->
                IF n >= 5 THEN Entry(b, "feature_names").list
                ELSE held.feature_names]]

\* ----------------------------------------------------------------- predict
\* (mutant) predict selecting the columns in the reverse of the held order.
InputColumnsReversed(held) ==
    [i \in 1..Len(held.feature_names) |->
        held.feature_names[Len(held.feature_names) + 1 - i]]

\* line 212: the columns of X are the held feature_names, in their order.
InputColumns(held) == held.feature_names

\* last_row[names]: the row's cells in the order of the names.
SelectColumns(row, names) == [i \in 1..Len(names) |-> row[names[i]]]

\* RandomForestRegressor.predict on one input row X: some function of the
\* fitted forest and of the cells by position (the first and the ninth are
\* hour and lag_1h in the order the forest was fitted with), which may be
\* negative.
Regress(m, X) == ((m.run + X[1] + X[9]) % 3) - 1

\* What predict raises or returns without running the model.
NoForecast(out, value, columns) ==
    [out |-> out, value |-> value, columns |-> columns, fed |-> << >>,
     raw |-> << >>]

\* (mutant) the forecast time counted from the loop index instead of h + 1.
ForecastTimeFromIndex(t0, h) == t0 + h

\* line 203: current_time + timedelta(hours=h+1), h the loop index from 0.
ForecastTime(t0, h) == t0 + h + 1

\* (mutant) a loop that never writes the prediction back.
NoFeedBack(row, pred, names) == row

\* lines 217-218: the model's output, as returned, becomes lag_1h.
FeedBack(row, pred, names) ==
    IF "lag_1h" \in Range(names) THEN [row EXCEPT !.lag_1h = pred] ELSE row

\* One pass of the forecast loop for loop index h (0 first), then the rest:
\* `fed` lists the rows given to the model, `raw` what the model returned
\* for each, `value` what was appended (line 214).
RECURSIVE ForecastLoop(_, _, _, _, _)
ForecastLoop(held, row, t0, h, horizon) ==
    IF h >= horizon
        THEN NoForecast("ok", << >>, InputColumns(held))
    ELSE
    LET ft == ForecastTime(t0, h)
        r1 == [row EXCEPT !.hour = Hour(ft),
                          !.day_of_week = DayOfWeek(ft),
                          !.month = Month(ft),
                          !.is_weekend = IsWeekend(ft),
                          !.hour_sin = HourSin(Hour(ft)),
                          !.hour_cos = HourCos(Hour(ft))]
        pred == Regress(held.model, SelectColumns(r1, InputColumns(held)))
        r2 == FeedBack(r1, pred, held.feature_names)
        rest == ForecastLoop(held, r2, t0, h + 1, horizon)
    IN  IF ~held.model.fitted
            THEN NoForecast("NotFittedError", << >>, InputColumns(held))
        ELSE IF rest.out # "ok" THEN rest
        ELSE [out |-> "ok", value |-> << Max(0, pred) >> \o rest.value,
              columns |-> InputColumns(held),
              fed |-> << r1 >> \o rest.fed,
              raw |-> << pred >> \o rest.raw]

\* ForecastModel.predict: the list returned, or the error raised.
Predict(held, data, weather, horizon) ==
    IF ~IsLoaded(held.model)
        THEN NoForecast("ValueError: Model not loaded", << >>, << >>)
    ELSE
    LET df == CreateFeatures(data, weather)
        n == Len(df.rows)
    IN  IF df.err # "none" THEN NoForecast(df.err, << >>, << >>)
        ELSE IF n = 0
            THEN NoForecast("ok", [i \in 1..horizon |-> 0], << >>)
        ELSE IF horizon >= 1 /\ ~(Range(InputColumns(held)) \subseteq df.cols)
            THEN NoForecast("KeyError", << >>, << >>)
        ELSE IF horizon >= 1 /\ held.model.fitted
                /\ Len(InputColumns(held)) # Len(FeatureNames13)
            THEN NoForecast("ValueError: feature count", << >>, InputColumns(held))
        ELSE ForecastLoop(held, df.rows[n], df.rows[n].timestamp, 0, horizon)

\* ------------------------------------------------------------------- state
VARIABLES
    model,          \* ForecastModel.model
    version,        \* ForecastModel.version
    trained_at,     \* ForecastModel.trained_at
    metrics,        \* ForecastModel.metrics
    feature_names,  \* ForecastModel.feature_names
    disk,           \* the file at ForecastModel.model_path
    req,            \* per request slot: where its call stands, its locals and,
                    \* once done, what it returned or raised
    runs,           \* training runs started so far (the clock of trained_at)
    succeeded,      \* history: a train or load of this engine has succeeded
    persisted,      \* history: the artifact the last completed save wrote,
                    \* while the file still is that write
    peer            \* what a load by another process returned in the last step

vars == << model, version, trained_at, metrics, feature_names,
           disk, req, runs, succeeded, persisted, peer >>

engine == << model, version, trained_at, metrics, feature_names >>

Held ==
    [model |-> model, version |-> version, trained_at |-> trained_at,
     metrics |-> metrics, feature_names |-> feature_names]

Requests == 1..MaxRequests
Horizons == (0 - 1)..MaxHorizon

Idle == [pc |-> "idle"]
NoCall == [op |-> "none"]
NotPersisted == [valid |-> FALSE]

\* A bundle saved by an earlier process, and what else the path may hold when
\* the process starts: nothing, a truncated file, a bundle of an older layout.
OlderBundle ==
    [model |-> Forest(0, TRUE), version |-> "v1.0", trained_at |-> 0,
     metrics |-> MetricsOf(0), feature_names |-> FeatureNames13]
LegacyBytes ==
    << [k |-> "model", obj |-> Forest(0, TRUE)],
       [k |-> "version", str |-> "v0.9"],
       [k |-> "STOP"] >>
InitialFiles ==
    { NoFile,
      FileOf(Pickle(OlderBundle)),
      FileOf(SubSeq(Pickle(OlderBundle), 1, 2)),
      FileOf(LegacyBytes) }

Init ==
    /\ model = FreshEngine.model
    /\ version = FreshEngine.version
    /\ trained_at = FreshEngine.trained_at
    /\ metrics = FreshEngine.metrics
    /\ feature_names = FreshEngine.feature_names
    /\ disk \in InitialFiles
    /\ req = [r \in Requests |-> Idle]
    /\ runs = 0
    /\ succeeded = FALSE
    /\ persisted = NotPersisted
    /\ peer = NoCall

\* ------------------------------------------------------------- scheduling
\* (mutant) handlers declared with plain `def`, which FastAPI runs on a
\* thread pool: a request starts whatever the others are doing.
ThreadPoolFree == TRUE

\* Every handler of main.py is an `async def` without an await: the event
\* loop runs it to completion before it starts another.
EventLoopFree == \A q \in Requests : req[q].pc = "idle"

\* A call that starts takes the first free slot.
Starts(r) == EventLoopFree /\ \A q \in 1..(r - 1) : req[q].pc # "idle"

\* The call of slot r returns or raises: `rec` is what its caller sees.
Finish(r, rec) == req' = [req EXCEPT ![r] = rec]

\* The caller has its answer; the slot is free again.
Respond(r) ==
    /\ req[r].pc = "done"
    /\ req' = [req EXCEPT ![r] = Idle]
    /\ peer' = NoCall
    /\ UNCHANGED << engine, disk, runs, succeeded, persisted >>

\* ------------------------------------------------------------------- train
\* int(len(df) * 0.8)
SplitIdx(n) == (n * 8) \div 10

\* The columns of a feature row that train reads besides the features.
Readings(rows) ==
    [i \in 1..Len(rows) |->
        [timestamp |-> rows[i].timestamp, total_kwh |-> rows[i].total_kwh,
         avg_power_w |-> rows[i].avg_power_w]]

\* lines 134 and 137: total_kwh if the frame has it, else avg_power_w / 1000.
Target(rows, cols) ==
    [i \in 1..Len(rows) |->
        IF "total_kwh" \in cols THEN rows[i].total_kwh
        ELSE rows[i].avg_power_w \div 1000]

\* What a call of train returns or raises, with the locals it had.
TrainDone(out, call) ==
    [pc |-> "done", op |-> "train", out |-> out, pre |-> call.pre,
     run |-> call.run, handler |-> call.handler, features |-> call.features,
     cols |-> call.cols, df |-> call.df, train_df |-> call.train_df,
     val_df |-> call.val_df, y_train |-> call.y_train, file |-> call.file]

\* train, lines 115-118: create_features; an error leaves through the caller.
\* `file` remembers what model_path held when train was called.
TrainBegin(r, data, weather, handler) ==
    LET df == CreateFeatures(data, weather)
        call == [pc |-> "train_names", features |-> df.err, cols |-> df.cols,
                 df |-> Readings(df.rows), n |-> Len(df.rows),
                 train_df |-> << >>, val_df |-> << >>, y_train |-> << >>,
                 run |-> runs + 1, pre |-> Held, handler |-> handler,
                 file |-> disk]
    IN  /\ Starts(r)
        /\ runs < MaxRuns
        /\ runs' = runs + 1
        /\ IF df.err # "none"
             THEN Finish(r, TrainDone(df.err, call))
             ELSE req' = [req EXCEPT ![r] = call]
        /\ peer' = NoCall
        /\ UNCHANGED << engine, disk, succeeded, persisted >>

CallTrain(r, data, weather) == TrainBegin(r, data, weather, FALSE)

\* lines 120-126
TrainSetNames(r) ==
    /\ req[r].pc = "train_names"
    /\ feature_names' = FeatureNames13
    /\ req' = [req EXCEPT ![r].pc = "train_split"]
    /\ peer' = NoCall
    /\ UNCHANGED << model, version, trained_at, metrics, disk, runs, succeeded,
                    persisted >>

\* (mutant) the handler goes on to save after a train that raised.
TrainFailedThenSaves(r, err) ==
    IF req[r].handler
        THEN req' = [req EXCEPT ![r].pc = "save_open"]
    ELSE Finish(r, TrainDone(err, req[r]))

\* train raises: the exception leaves through the caller.
TrainFailed(r, err) == Finish(r, TrainDone(err, req[r]))

\* lines 128-137: the column selections raise KeyError on a missing column.
TrainSplit(r) ==
    /\ req[r].pc = "train_split"
    /\ IF /\ Range(feature_names) \subseteq req[r].cols
          /\ ("total_kwh" \in req[r].cols \/ "avg_power_w" \in req[r].cols)
         THEN req' = [req EXCEPT
                ![r].pc = "train_new",
                ![r].train_df = SubSeq(req[r].df, 1, SplitIdx(req[r].n)),
                ![r].val_df =
                    SubSeq(req[r].df, SplitIdx(req[r].n) + 1, req[r].n),
                ![r].y_train =
                    Target(SubSeq(req[r].df, 1, SplitIdx(req[r].n)), req[r].cols)]
         ELSE TrainFailed(r, "KeyError")
    /\ peer' = NoCall
    /\ UNCHANGED << engine, disk, runs, succeeded, persisted >>

\* lines 139-146
TrainNewModel(r) ==
    /\ req[r].pc = "train_new"
    /\ model' = Forest(req[r].run, FALSE)
    /\ req' = [req EXCEPT ![r].pc = "train_fit"]
    /\ peer' = NoCall
    /\ UNCHANGED << version, trained_at, metrics, feature_names, disk, runs,
                    succeeded, persisted >>

\* (mutant) an estimator whose fit accepts a training slice of no rows.
TrainFitUnchecked(r) ==
    /\ req[r].pc = "train_fit"
    /\ model' = [model EXCEPT !.fitted = TRUE]
    /\ req' = [req EXCEPT ![r].pc = "train_metrics"]
    /\ peer' = NoCall
    /\ UNCHANGED << version, trained_at, metrics, feature_names, disk, runs,
                    succeeded, persisted >>

\* line 147: fit raises ValueError on a training slice of no rows.
TrainFit(r) ==
    /\ req[r].pc = "train_fit"
    /\ IF Len(req[r].train_df) >= 1
         THEN /\ model' = [model EXCEPT !.fitted = TRUE]
              /\ req' = [req EXCEPT ![r].pc = "train_metrics"]
         ELSE /\ TrainFailed(r, "ValueError: 0 samples")
              /\ UNCHANGED model
    /\ peer' = NoCall
    /\ UNCHANGED << version, trained_at, metrics, feature_names, disk, runs,
                    succeeded, persisted >>

\* lines 149-159
TrainMetrics(r) ==
    /\ req[r].pc = "train_metrics"
    /\ metrics' = MetricsOf(req[r].run)
    /\ req' = [req EXCEPT ![r].pc = "train_stamp"]
    /\ peer' = NoCall
    /\ UNCHANGED << model, version, trained_at, feature_names, disk, runs,
                    succeeded, persisted >>

\* (mutant) a train that dumps the new artifact itself before it returns.
TrainStampPersisting(r) ==
    /\ req[r].pc = "train_stamp"
    /\ trained_at' = req[r].run
    /\ succeeded' = TRUE
    /\ disk' = FileOf(Pickle([Held EXCEPT !.trained_at = req[r].run]))
    /\ persisted' = NotPersisted
    /\ IF req[r].handler
         THEN req' = [req EXCEPT ![r].pc = "save_open"]
         ELSE Finish(r, TrainDone("ok", req[r]))
    /\ peer' = NoCall
    /\ UNCHANGED << model, version, metrics, feature_names, runs >>

\* lines 161-165; in the /train handler save follows (main.py line 212).
TrainStamp(r) ==
    /\ req[r].pc = "train_stamp"
    /\ trained_at' = req[r].run
    /\ succeeded' = TRUE
    /\ IF req[r].handler
         THEN req' = [req EXCEPT ![r].pc = "save_open"]
         ELSE Finish(r, TrainDone("ok", req[r]))
    /\ peer' = NoCall
    /\ UNCHANGED << model, version, metrics, feature_names, disk, runs, persisted >>

\* -------------------------------------------------------------------- save
CallSave(r) ==
    /\ Starts(r)
    /\ req' = [req EXCEPT ![r] =
            [pc |-> "save_open", pre |-> Held, run |-> Never, handler |-> FALSE]]
    /\ peer' = NoCall
    /\ UNCHANGED << engine, disk, runs, succeeded, persisted >>

\* lines 224-234: the dict is built from the held fields, then joblib.dump
\* opens the file for writing, which empties it.
SaveOpen(r) ==
    /\ req[r].pc = "save_open"
    /\ disk' = FileOf(<< >>)
    /\ req' = [req EXCEPT ![r] =
            [pc |-> "save_write", stream |-> Pickle(Held), written |-> 0,
             saving |-> Held, before |-> disk, pre |-> req[r].pre, run |-> req[r].run,
             handler |-> req[r].handler]]
    /\ persisted' = NotPersisted
    /\ peer' = NoCall
    /\ UNCHANGED << engine, runs, succeeded >>

\* A write of one entry at the writer's own offset.
WriteAt(bytes, pos, e) ==
    [i \in 1..Max(Len(bytes), pos) |->
        IF i = pos THEN e
        ELSE IF i <= Len(bytes) THEN bytes[i]
        ELSE [k |-> "GAP"]]

\* line 234, entry by entry; the call returns once STOP is written.
SaveWrite(r) ==
    LET pos == req[r].written + 1
        stream == req[r].stream
    IN  /\ req[r].pc = "save_write"
        /\ disk' = FileOf(WriteAt(disk.bytes, pos, stream[pos]))
        /\ IF pos < Len(stream)
             THEN /\ req' = [req EXCEPT ![r].written = pos]
                  /\ UNCHANGED persisted
             ELSE /\ Finish(r, [pc |-> "done",
                                op |-> IF req[r].handler THEN "train" ELSE "save",
                                out |-> "ok", pre |-> req[r].pre,
                                run |-> req[r].run, handler |-> req[r].handler])
                  /\ persisted' = [valid |-> TRUE, artifact |-> req[r].saving]
        /\ peer' = NoCall
        /\ UNCHANGED << engine, runs, succeeded >>

\* -------------------------------------------------------------------- load
SetEngine(h) ==
    /\ model' = h.model
    /\ version' = h.version
    /\ trained_at' = h.trained_at
    /\ metrics' = h.metrics
    /\ feature_names' = h.feature_names

\* ForecastModel.load, lines 237-254
CallLoad(r) ==
    LET res == LoadResult(Held, disk)
    IN  /\ Starts(r)
        /\ SetEngine(res.held)
        /\ succeeded' = (succeeded \/ res.ok)
        /\ Finish(r, [pc |-> "done", op |-> "load", ok |-> res.ok,
                      out |-> res.out, pre |-> Held])
        /\ peer' = NoCall
        /\ UNCHANGED << disk, runs, persisted >>

\* A fresh ForecastModel on the same path in another process calls load, at
\* any moment of this process (the instant a call returns is the moment after
\* it for the file).
PeerLoad ==
    LET res == LoadResult(FreshEngine, disk)
    IN  /\ \A q \in Requests : req[q].pc # "done"
        /\ peer' = [op |-> "load", ok |-> res.ok, out |-> res.out,
                    held |-> res.held]
        /\ UNCHANGED << engine, disk, req, runs, succeeded, persisted >>

\* ForecastModel(), lines 12-18: a new engine object replaces the old one.
Construct ==
    /\ EventLoopFree
    /\ Held # FreshEngine \/ succeeded
    /\ SetEngine(FreshEngine)
    /\ succeeded' = FALSE
    /\ peer' = NoCall
    /\ UNCHANGED << disk, req, runs, persisted >>

\* ----------------------------------------------------------------- predict
CallPredict(r, data, weather, horizon) ==
    LET res == Predict(Held, data, weather, horizon)
    IN  /\ Starts(r)
        /\ Finish(r, [pc |-> "done", op |-> "predict", handler |-> FALSE,
                      out |-> res.out, value |-> res.value,
                      columns |-> res.columns, fed |-> res.fed,
                      raw |-> res.raw,
                      horizon |-> horizon, data |-> data, weather |-> weather])
        /\ peer' = NoCall
        /\ UNCHANGED << engine, disk, runs, succeeded, persisted >>

\* --------------------------------------------------------- create_features
\* A direct call of ForecastModel.create_features, which reads and writes no
\* field of the engine.
CallCreateFeatures(r, data, weather) ==
    LET df == CreateFeatures(data, weather)
    IN  /\ Starts(r)
        /\ Finish(r, [pc |-> "done", op |-> "create_features",
                      data |-> data, weather |-> weather, pre |-> Held,
                      data_after |-> data,
                      weather_after |-> WeatherAfter(data, weather),
                      err |-> df.err, cols |-> df.cols, rows |-> df.rows])
        /\ peer' = NoCall
        /\ UNCHANGED << engine, disk, runs, succeeded, persisted >>

\* ------------------------------------------------------ the service, main.py
\* DataFrame.empty
Empty(frame) == frame.cols = {} \/ frame.rows = << >>

HandlerDone(op, out, value) ==
    [pc |-> "done", op |-> op, handler |-> TRUE, out |-> out, value |-> value,
     pre |-> Held, run |-> Never, file |-> disk]

PredictDone(status, value, data, weather, horizon) ==
    [pc |-> "done", op |-> "predict", handler |-> TRUE, out |-> status,
     value |-> value, horizon |-> horizon, data |-> data, weather |-> weather]

\* POST /train, lines 171-228: no training data is a 404 raised inside the
\* try, which the handler's own except clause turns into a 500; so is every
\* error of train.  save follows train (TrainStamp).
HandleTrain(r, data, weather) ==
    IF Empty(data)
    THEN /\ Starts(r)
         /\ Finish(r, HandlerDone("train", "HTTP 500: no training data", << >>))
         /\ peer' = NoCall
         /\ UNCHANGED << engine, disk, runs, succeeded, persisted >>
    ELSE TrainBegin(r, data, weather, TRUE)

\* POST /predict, lines 119-161
HandlePredict(r, data, weather, horizon) ==
    LET res == Predict(Held, data, weather, horizon)
        status == IF ~IsLoaded(model) THEN "HTTP 503"
                  ELSE IF Empty(data) THEN "HTTP 404"
                  ELSE IF res.out = "ok" THEN "HTTP 200"
                  ELSE "HTTP 500"
        value == IF status = "HTTP 200" THEN res.value ELSE << >>
    IN  /\ Starts(r)
        /\ Finish(r, PredictDone(status, value, data, weather, horizon))
        /\ peer' = NoCall
        /\ UNCHANGED << engine, disk, runs, succeeded, persisted >>

\* The process starts: `model = ForecastModel()` at import (line 21), then
\* startup_event (lines 57-71) calls load.
Started(file) == LoadResult(FreshEngine, file)

Restart ==
    /\ EventLoopFree
    /\ SetEngine(Started(disk).held)
    /\ succeeded' = Started(disk).ok
    /\ peer' = NoCall
    /\ UNCHANGED << disk, req, runs, persisted >>

ServiceInit ==
    /\ disk \in InitialFiles
    /\ model = Started(disk).held.model
    /\ version = Started(disk).held.version
    /\ trained_at = Started(disk).held.trained_at
    /\ metrics = Started(disk).held.metrics
    /\ feature_names = Started(disk).held.feature_names
    /\ req = [r \in Requests |-> Idle]
    /\ runs = 0
    /\ succeeded = Started(disk).ok
    /\ persisted = NotPersisted
    /\ peer = NoCall

\* ---------------------------------------------------------------- the spec
TrainSteps(r) ==
    \/ TrainSetNames(r)
    \/ TrainSplit(r)
    \/ TrainNewModel(r)
    \/ TrainFit(r)
    \/ TrainMetrics(r)
    \/ TrainStamp(r)

SaveSteps(r) ==
    \/ SaveOpen(r)
    \/ SaveWrite(r)

\* The engine under any sequence of calls of its methods.
Next ==
    \/ \E r \in Requests, d \in Histories, w \in Weathers : CallTrain(r, d, w)
    \/ \E r \in Requests : TrainSteps(r)
    \/ \E r \in Requests : CallSave(r)
    \/ \E r \in Requests : SaveSteps(r)
    \/ \E r \in Requests : CallLoad(r)
    \/ PeerLoad
    \/ Construct
    \/ \E r \in Requests, d \in Histories, w \in Weathers, h \in Horizons :
            CallPredict(r, d, w, h)
    \/ \E r \in Requests : Respond(r)

Spec == Init /\ [][Next]_vars

\* The engine as the service drives it.
ServiceNext ==
    \/ \E r \in Requests, d \in HistoricalData, w \in Weathers : HandleTrain(r, d, w)
    \/ \E r \in Requests : TrainSteps(r)
    \/ \E r \in Requests : SaveSteps(r)
    \/ \E r \in Requests, d \in RecentReadings, w \in Weathers, h \in Horizons :
            HandlePredict(r, d, w, h)
    \/ Restart
    \/ PeerLoad
    \/ \E r \in Requests : Respond(r)

ServiceSpec == ServiceInit /\ [][ServiceNext]_vars

\* Feature construction and training over frames of any shape, on an engine
\* with nothing persisted.
DataInit ==
    /\ model = FreshEngine.model
    /\ version = FreshEngine.version
    /\ trained_at = FreshEngine.trained_at
    /\ metrics = FreshEngine.metrics
    /\ feature_names = FreshEngine.feature_names
    /\ disk = NoFile
    /\ req = [r \in Requests |-> Idle]
    /\ runs = 0
    /\ succeeded = FALSE
    /\ persisted = NotPersisted
    /\ peer = NoCall

DataNext ==
    \/ \E r \in Requests, d \in Frames, w \in WeatherFrames :
            CallCreateFeatures(r, d, w)
    \/ \E r \in Requests, d \in LagHistories \cup {Shuffled},
              w \in {EmptyWeather, StringWeather} :
            CallCreateFeatures(r, d, w)
    \/ \E r \in Requests, d \in Frames, w \in Weathers : CallTrain(r, d, w)
    \/ \E r \in Requests : TrainSteps(r)
    \/ \E r \in Requests : Respond(r)

DataSpec == DataInit /\ [][DataNext]_vars

\* Forecasts of an engine that loads the bundle an earlier process saved.
ForecastInit ==
    /\ model = FreshEngine.model
    /\ version = FreshEngine.version
    /\ trained_at = FreshEngine.trained_at
    /\ metrics = FreshEngine.metrics
    /\ feature_names = FreshEngine.feature_names
    /\ disk = FileOf(Pickle(OlderBundle))
    /\ req = [r \in Requests |-> Idle]
    /\ runs = 0
    /\ succeeded = FALSE
    /\ persisted = NotPersisted
    /\ peer = NoCall

ForecastNext ==
    \/ \E r \in Requests : CallLoad(r)
    \/ \E r \in Requests, d \in SeedHistories, w \in Weathers, h \in Horizons :
            CallPredict(r, d, w, h)
    \/ \E r \in Requests : Respond(r)

ForecastSpec == ForecastInit /\ [][ForecastNext]_vars

\* -------------------------------------------------------------- properties
Done(r, op) == req[r].pc = "done" /\ req[r].op = op

\* The engine holds what a successful train or a load of a complete bundle
\* leaves: a fitted model and the 13 feature names.
Usable == IsLoaded(model) /\ model.fitted /\ feature_names = FeatureNames13
Zeros(n) == [i \in 1..n |-> 0]

\* C1: with a loaded model, a horizon >= 1 and any history that has the
\* timestamp column (empty or not, with total_kwh or only avg_power_w, with
\* or without weather), predict returns exactly horizon_hours values, all >= 0.
C1_PredictLengthAndSign ==
    \A r \in Requests :
        ( /\ Done(r, "predict")
          /\ Usable
          /\ "timestamp" \in req[r].data.cols
          /\ req[r].horizon >= 1 )
        => /\ req[r].out = "ok"
           /\ Len(req[r].value) = req[r].horizon
           /\ \A i \in 1..Len(req[r].value) : req[r].value[i] >= 0

\* C2: a train call that raises leaves model, version, trained_at, metrics
\* and feature_names (hence is_loaded()) as they were before the call.
C2_FailedTrainChangesNothing ==
    \A r \in Requests :
        (Done(r, "train") /\ req[r].out # "ok") => Held = req[r].pre

\* C3: after a load, either all five held fields are those of the persisted
\* bundle or none of them has changed.
C3_LoadAllOrNothing ==
    \A r \in Requests :
        Done(r, "load") =>
            \/ Held = req[r].pre
            \/ /\ Readable(disk.bytes)
               /\ \A i \in 1..Len(BundleKeys) : HasKey(disk.bytes, BundleKeys[i])
               /\ model = Entry(disk.bytes, "model").obj
               /\ version = Entry(disk.bytes, "version").str
               /\ trained_at = Entry(disk.bytes, "trained_at").time
               /\ metrics = Entry(disk.bytes, "metrics").dict
               /\ feature_names = Entry(disk.bytes, "feature_names").list

\* C4: a predict that runs the model never reads a model constructed by one
\* training run of the process together with metrics or trained_at of
\* another run, nor a model that is not fitted.
RanModel(r) ==
    \/ req[r].out = "NotFittedError"
    \/ req[r].out = "ok" /\ req[r].value # << >>
          /\ CreateFeatures(req[r].data, req[r].weather).rows # << >>
C4_PredictSeesOneArtifact ==
    \A r \in Requests :
        (Done(r, "predict") /\ RanModel(r) /\ model.run >= 1)
        => /\ model.fitted
           /\ metrics.run = model.run
           /\ trained_at = model.run
           /\ feature_names = FeatureNames13

\* C5: at most one /train request (train, then save) is under way at a time,
\* and a complete bundle in the file pairs a fitted model with the metrics
\* and trained_at of the run that constructed it.
TrainingPcs ==
    {"train_names", "train_split", "train_new", "train_fit", "train_metrics",
     "train_stamp", "save_open", "save_write"}
InFlight == {r \in Requests : req[r].pc \in TrainingPcs}
C5_OneTrainingRunInFlight ==
    /\ Cardinality(InFlight) <= 1
    /\ ( /\ Readable(disk.bytes)
         /\ HasKey(disk.bytes, "model")
         /\ HasKey(disk.bytes, "metrics")
         /\ HasKey(disk.bytes, "trained_at") )
       => /\ Entry(disk.bytes, "model").obj.fitted
          /\ Entry(disk.bytes, "metrics").dict.run = Entry(disk.bytes, "model").obj.run
          /\ Entry(disk.bytes, "trained_at").time = Entry(disk.bytes, "model").obj.run
C5_SecondRunPersisted ==
    \E r \in Requests :
        /\ Done(r, "train") /\ req[r].handler /\ req[r].out = "ok"
        /\ Readable(disk.bytes)
        /\ Entry(disk.bytes, "model").obj.run = 2

\* C6: a load that runs while a save is writing, over a file that held a
\* complete bundle or did not exist, finds the previous bundle, the new one
\* or no file: never a partly written one.
WholeOrAbsent(file) ==
    \/ ~file.exists
    \/ /\ Readable(file.bytes)
       /\ \A i \in 1..Len(BundleKeys) : HasKey(file.bytes, BundleKeys[i])
C6_LoadNeverSeesPartialWrite ==
    \A r \in Requests :
        ( /\ req[r].pc = "save_write"
          /\ WholeOrAbsent(req[r].before)
          /\ peer.op = "load" )
        => \/ peer.out = "not found"
           \/ /\ peer.out = "loaded"
              /\ \/ peer.held = req[r].saving
                 \/ peer.held = Started(req[r].before).held

\* C7: predict on an engine none of whose train or load calls has succeeded
\* raises the not-loaded error and returns no forecast.
C7_NoArtifactNoForecast ==
    \A r \in Requests :
        (Done(r, "predict") /\ ~req[r].handler /\ ~succeeded)
        => /\ req[r].out = "ValueError: Model not loaded"
           /\ req[r].value = << >>

\* C8: predict with a loaded model and horizon_hours < 1 (on a history that
\* a horizon >= 1 is answered for) raises a validation error and returns no
\* list.
C8_HorizonBelowOneRejected ==
    \A r \in Requests :
        ( /\ Done(r, "predict") /\ ~req[r].handler
          /\ Usable
          /\ Predict(Held, req[r].data, req[r].weather, 1).out = "ok"
          /\ req[r].horizon < 1 )
        => /\ req[r].out = "ValidationError"
           /\ req[r].out # "ok"

\* C9: with a loaded model and a consumption history of no rows, predict
\* raises nothing and returns horizon_hours zeros.
C9_EmptyHistoryGivesZeros ==
    \A r \in Requests :
        ( /\ Done(r, "predict") /\ ~req[r].handler
          /\ Usable
          /\ req[r].data.rows = << >>
          /\ req[r].horizon >= 1 )
        => /\ req[r].out = "ok"
           /\ req[r].value = Zeros(req[r].horizon)

\* C10: a load of the file a completed save wrote, by the same engine or a
\* fresh one, reports success and holds the version, metrics and
\* feature_names held when save was called.
SameMetadata(h, a) ==
    /\ h.version = a.version
    /\ h.metrics = a.metrics
    /\ h.feature_names = a.feature_names
C10_SaveLoadRoundTrip ==
    /\ \A r \in Requests :
          (Done(r, "load") /\ persisted.valid)
          => req[r].ok /\ SameMetadata(Held, persisted.artifact)
    /\ (peer.op = "load" /\ persisted.valid)
          => peer.ok /\ SameMetadata(peer.held, persisted.artifact)
C10_TrainedArtifactReloaded ==
    \E r \in Requests :
        /\ Done(r, "load") /\ persisted.valid
        /\ req[r].pre.model = NoModel
        /\ metrics.run >= 1
        /\ feature_names = FeatureNames13

\* C11: a load of a file that is present but cannot be unpickled reports the
\* failure and leaves the engine unloaded (is_loaded() false), also when the
\* engine held the artifact of a completed training run before the call.
C11_UnreadableLoadUnloads ==
    \A r \in Requests :
        ( /\ Done(r, "load") /\ disk.exists /\ ~Readable(disk.bytes)
          /\ req[r].pre.model.fitted
          /\ req[r].pre.metrics.run = req[r].pre.model.run )
        => /\ ~req[r].ok
           /\ req[r].out = "unreadable"
           /\ ~IsLoaded(model)

\* C12: a load when no file exists at the path reports "not found" without
\* an error and leaves all five held fields as they were.
C12_NothingPersistedLoadIsQuiet ==
    \A r \in Requests :
        (Done(r, "load") /\ ~disk.exists)
        => /\ req[r].out = "not found"
           /\ ~req[r].ok
           /\ Held = req[r].pre
C12_LoadWithoutFileAfterTrain ==
    \E r \in Requests :
        /\ Done(r, "load") /\ ~disk.exists
        /\ IsLoaded(req[r].pre.model)
        /\ req[r].pre.metrics.run >= 1

\* C13: from the call of train to its return the file at model_path is what
\* it was when train was called: a load after a successful train and before
\* a save reads the bundle persisted before, or finds no file, and not the
\* newly trained artifact.
TrainPcs ==
    {"train_names", "train_split", "train_new", "train_fit", "train_metrics",
     "train_stamp"}
C13_TrainLeavesBundle ==
    \A r \in Requests :
        /\ req[r].pc \in TrainPcs => disk = req[r].file
        /\ (Done(r, "train") /\ ~req[r].handler)
           => /\ disk = req[r].file
              /\ LoadResult(FreshEngine, disk) = LoadResult(FreshEngine, req[r].file)
              /\ req[r].out = "ok"
                 => LoadResult(FreshEngine, disk).held.model # model
C13_OlderBundleReadAfterTrain ==
    /\ peer.op = "load"
    /\ peer.out = "loaded"
    /\ peer.held = OlderBundle
    /\ model = Forest(1, TRUE)
    /\ metrics = MetricsOf(1)
    /\ trained_at = 1

\* C14: a train whose feature matrix has no row raises (the ValueError of
\* fit, or the KeyError of the column selection) and returns no metrics; the
\* engine does not hold metrics of that run.
C14_EmptyMatrixTrainFails ==
    \A r \in Requests :
        ( /\ Done(r, "train") /\ ~req[r].handler
          /\ req[r].features = "none"
          /\ req[r].df = << >> )
        => /\ req[r].out \in {"ValueError: 0 samples", "KeyError"}
           /\ metrics # MetricsOf(req[r].run)
C14_AllRowsDroppedThenFitRaised ==
    \E r \in Requests :
        /\ Done(r, "train") /\ ~req[r].handler
        /\ req[r].features = "none"
        /\ req[r].df = << >>
        /\ "total_kwh" \in req[r].cols
        /\ req[r].out = "ValueError: 0 samples"

\* C15: for a history whose timestamps are all different, in whatever order
\* its rows come, a completed train has split the time-sorted feature rows
\* into the first 80% (rounded down) for fitting and the rest for validation,
\* and every validation row is strictly later than every training row.
DistinctTimestamps(df) ==
    \A i, j \in 1..Len(df) : i # j => df[i].timestamp # df[j].timestamp
C16_SameOrderedFeatureList ==
    /\ \A r \in Requests :
          (Done(r, "train") /\ req[r].out = "ok")
          => feature_names =
                << "hour", "day_of_week", "month", "is_weekend",
                   "hour_sin", "hour_cos", "temp_c", "humidity",
                   "lag_1h", "lag_24h", "lag_168h",
                   "rolling_mean_24h", "rolling_std_24h" >>
    /\ \A r \in Requests :
          (Done(r, "predict") /\ ~req[r].handler /\ RanModel(r))
          => req[r].columns = feature_names
C16_PredictAfterTrain ==
    \E r \in Requests :
        /\ Done(r, "predict") /\ ~req[r].handler
        /\ req[r].out = "ok"
        /\ req[r].value # << >>
        /\ model = Forest(1, TRUE)
        /\ Len(req[r].columns) = 13

\* C17: a train on a history of at least two rows with different timestamps
\* completes; its target is total_kwh when the history has that column, and
\* avg_power_w / 1000 when it has avg_power_w but not total_kwh.
C17_FallbackTarget ==
    \A r \in Requests :
        ( /\ Done(r, "train") /\ ~req[r].handler
          /\ req[r].features = "none"
          /\ Len(req[r].df) >= 2
          /\ DistinctTimestamps(req[r].df)
          /\ ("total_kwh" \in req[r].cols \/ "avg_power_w" \in req[r].cols) )
        => /\ req[r].out = "ok"
           /\ req[r].y_train =
                [i \in 1..Len(req[r].train_df) |->
                    IF "total_kwh" \in req[r].cols
                    THEN req[r].train_df[i].total_kwh
                    ELSE req[r].train_df[i].avg_power_w \div 1000]

\* C18: create_features on a consumption frame that has the timestamp column
\* and no row returns a frame without rows and raises nothing, whatever the
\* weather frame.
C18_EmptyInputEmptyOutput ==
    \A r \in Requests :
        ( /\ Done(r, "create_features")
          /\ "timestamp" \in req[r].data.cols
          /\ req[r].data.rows = << >> )
        => /\ req[r].err = "none"
           /\ req[r].rows = << >>

\* C19: create_features on a frame without the timestamp column raises the
\* ValueError of its first check, whatever else is wrong with the inputs,
\* and returns no row.
C19_MissingTimestampRejected ==
    \A r \in Requests :
        (Done(r, "create_features") /\ "timestamp" \notin req[r].data.cols)
        => /\ req[r].err = "ValueError: 'timestamp' column not found in data"
           /\ req[r].rows = << >>
           /\ req[r].cols = {}
C19_RowsWithoutTimestampColumn ==
    \E r \in Requests :
        /\ Done(r, "create_features")
        /\ "timestamp" \notin req[r].data.cols
        /\ req[r].data.rows # << >>
        /\ req[r].weather.rows # << >>
        /\ ~req[r].weather.aware

\* C20: when the weather frame has no row or no temp_c column, every row
\* create_features returns has temp_c = 20 and humidity = 50.
C20_DefaultWeatherOnEveryRow ==
    \A r \in Requests :
        ( /\ Done(r, "create_features")
          /\ req[r].err = "none"
          /\ (req[r].weather.rows = << >> \/ "temp_c" \notin req[r].weather.cols) )
        => \A i \in 1..Len(req[r].rows) :
              req[r].rows[i].temp_c = 20 /\ req[r].rows[i].humidity = 50
C20_RowsWithWeatherLackingTemperature ==
    \E r \in Requests :
        /\ Done(r, "create_features")
        /\ req[r].err = "none"
        /\ Len(req[r].rows) = MaxRows
        /\ req[r].weather.rows # << >>
        /\ "temp_c" \notin req[r].weather.cols

\* The seed of a forecast: the most recent feature row of the history.
Seed(r) ==
    LET df == CreateFeatures(req[r].data, req[r].weather)
    IN  df.rows[Len(df.rows)]

\* A predict that went through its loop at least once.
Forecast(r) ==
    /\ Done(r, "predict") /\ ~req[r].handler
    /\ req[r].out = "ok"
    /\ req[r].fed # << >>

\* C21: the row given to the model at iteration h (1..horizon_hours) has the
\* calendar and cyclical fields of t0 + h hours, t0 the seed's timestamp, and
\* the seed's temp_c, humidity, lag_24h, lag_168h and rolling statistics.
C21_CalendarOfForecastHour ==
    \A r \in Requests :
        Forecast(r)
        => /\ Len(req[r].fed) = req[r].horizon
           /\ \A h \in 1..Len(req[r].fed) :
                LET row == req[r].fed[h]
                    t == Seed(r).timestamp + h
                IN  /\ row.hour = t % 24
                    /\ row.day_of_week = DayOfWeek(t)
                    /\ row.month = Month(t)
                    /\ row.is_weekend = IsWeekend(t)
                    /\ row.hour_sin = HourSin(t % 24)
                    /\ row.hour_cos = HourCos(t % 24)
                    /\ row.temp_c = Seed(r).temp_c
                    /\ row.humidity = Seed(r).humidity
                    /\ row.lag_24h = Seed(r).lag_24h
                    /\ row.lag_168h = Seed(r).lag_168h
                    /\ row.rolling_mean_24h = Seed(r).rolling_mean_24h
                    /\ row.rolling_std_24h = Seed(r).rolling_std_24h
C21_ForecastIntoNextMonth ==
    \E r \in Requests :
        /\ Forecast(r)
        /\ Len(req[r].fed) = MaxHorizon
        /\ req[r].fed[1].month # Seed(r).month
        /\ req[r].fed[1].day_of_week # Seed(r).day_of_week
        /\ req[r].weather.rows # << >>

\* C22: iteration 1 uses the seed's lag_1h; iteration h + 1 uses as lag_1h
\* what the model returned at iteration h; apart from lag_1h and the calendar
\* fields of the forecast hour, every row given to the model is the seed.
C22_OnlyLagOneFeedsBack ==
    \A r \in Requests :
        Forecast(r)
        => /\ req[r].fed[1].lag_1h = Seed(r).lag_1h
           /\ \A h \in 1..(Len(req[r].fed) - 1) :
                req[r].fed[h + 1].lag_1h = req[r].raw[h]
           /\ \A h \in 1..Len(req[r].fed) :
                [req[r].fed[h] EXCEPT
                    !.lag_1h = Seed(r).lag_1h,
                    !.hour = Seed(r).hour,
                    !.day_of_week = Seed(r).day_of_week,
                    !.month = Seed(r).month,
                    !.is_weekend = Seed(r).is_weekend,
                    !.hour_sin = Seed(r).hour_sin,
                    !.hour_cos = Seed(r).hour_cos] = Seed(r)
C22_SecondIterationUsesFirstOutput ==
    \E r \in Requests :
        /\ Forecast(r)
        /\ Len(req[r].fed) >= 2
        /\ req[r].fed[2].lag_1h # req[r].fed[1].lag_1h
        /\ req[r].fed[2].lag_1h = req[r].raw[1]

\* C28: the lag_1h given to the model at iteration h + 1 is the value
\* appended to the output at iteration h, so with a seed lag_1h >= 0 no
\* lag_1h given to the model is negative.
C28_ClippedValueFedBack ==
    \A r \in Requests :
        (Forecast(r) /\ Seed(r).lag_1h >= 0)
        => /\ \A h \in 1..(Len(req[r].fed) - 1) :
                req[r].fed[h + 1].lag_1h = req[r].value[h]
           /\ \A h \in 1..Len(req[r].fed) : req[r].fed[h].lag_1h >= 0

\* The lag column of offset k of a feature row.
Lag(row, k) ==
    CASE k = 1 -> row.lag_1h
      [] k = 24 -> row.lag_24h
      [] k = 168 -> row.lag_168h

Built(r) == Done(r, "create_features") /\ req[r].err = "none"

\* C23: with a total_kwh column, the lag of offset k of a row that has k rows
\* before it is the total_kwh of the row k places back; a row with fewer
\* holds the total_kwh of the first row when the frame has more than k rows
\* and 0 when it has not; no column of any returned row is missing.
C23_LagFillPolicy ==
    \A r \in Requests :
        Built(r) /\ "total_kwh" \in req[r].data.cols =>
            LET rows == req[r].rows
                n == Len(rows)
            IN  /\ \A k \in LagOffsets, i \in 1..n :
                        Lag(rows[i], k) =
                            IF i > k THEN rows[i - k].total_kwh
                            ELSE IF n > k THEN rows[1].total_kwh
                            ELSE 0
                /\ \A i \in 1..n, c \in req[r].cols : rows[i][c] # NaN

\* A week and an hour of history: every offset has rows with and without
\* enough history.
C23_WeekAndAnHour ==
    \E r \in Requests :
        /\ Built(r)
        /\ "total_kwh" \in req[r].data.cols
        /\ \A k \in LagOffsets : Len(req[r].rows) > k
        /\ req[r].rows[1].total_kwh # 0

\* The reading of a feature row, in the unit of the input column.
Reading(row, cols) ==
    IF "total_kwh" \in cols THEN row.total_kwh ELSE row.avg_power_w \div 1000

\* The places of a sequence that hold a row with a timestamp, and those
\* that hold a given timestamp and reading.
Parsed(rows) == {i \in 1..Len(rows) : rows[i].ts # NaT}
PlacesOf(x, rows) == {i \in 1..Len(rows) : rows[i] = x}

\* C24: create_features returns one feature row for each input row whose
\* timestamp parses and none for a row whose timestamp does not, in ascending
\* order of timestamp whatever the order of the input.
C24_OneRowPerParsedRow ==
    \A r \in Requests :
        Built(r) =>
            LET in == req[r].data.rows
                out == req[r].rows
            IN  /\ \A i \in 1..Len(out) : out[i].timestamp # NaT
                /\ \A x \in Range(in) :
                        x.ts # NaT =>
                            Cardinality(PlacesOf(x,
                                [i \in 1..Len(out) |->
                                    [ts |-> out[i].timestamp,
                                     v |-> Reading(out[i], req[r].data.cols)]]))
                                = Cardinality(PlacesOf(x, in))
                /\ Len(out) = Cardinality(Parsed(in))
                /\ \A i, j \in 1..Len(out) :
                        i < j => out[i].timestamp <= out[j].timestamp

\* Rows that come in out of order around a row without a timestamp.
C24_ShuffledWithUnparsable ==
    \E r \in Requests :
        /\ Built(r)
        /\ \E i, j, k \in 1..Len(req[r].data.rows) :
                /\ i < j
                /\ req[r].data.rows[i].ts > req[r].data.rows[j].ts
                /\ req[r].data.rows[j].ts # NaT
                /\ req[r].data.rows[k].ts = NaT
        /\ Len(req[r].rows) = Len(req[r].data.rows) - 1

\* C25: the rows create_features returns have strictly increasing
\* timestamps, so no two of them share one, whatever the input holds.
C25_StrictlyIncreasingTimestamps ==
    \A r \in Requests :
        Built(r) =>
            \A i, j \in 1..Len(req[r].rows) :
                i < j => req[r].rows[i].timestamp < req[r].rows[j].timestamp

\* C26: a call of create_features, returning or raising, leaves the
\* consumption frame, the weather frame and every field of the engine as
\* they were.
C26_CreateFeaturesIsPure ==
    \A r \in Requests :
        Done(r, "create_features") =>
            /\ req[r].data_after = req[r].data
            /\ req[r].weather_after = req[r].weather
            /\ Held = req[r].pre

\* No call is between its first and its last step.
Quiescent == \A r \in Requests : req[r].pc \in {"idle", "done"}

\* C27: between calls, whenever is_loaded() is true the held model is
\* fitted, feature_names is the list it was fitted on and metrics holds
\* rmse, mae and mape.
C27_LoadedMeansComplete ==
    (Quiescent /\ IsLoaded(model)) =>
        /\ model.fitted
        /\ feature_names = FeatureNames13
        /\ metrics.keys = {"rmse", "mae", "mape"}

\* C29: when load returns True, is_loaded() is true right after it, whatever
\* bundle save wrote to the path.
C29_LoadSuccessMeansLoaded ==
    \A r \in Requests :
        (Done(r, "load") /\ req[r].ok) => IsLoaded(model)

\* C30: the /train handler is in save only when the train of the same request
\* has returned (the held model is fitted, its metrics and trained_at are
\* those of the request's run); when the request reports success the file
\* holds the bundle of the held artifact; when it reports an error the file
\* is what it was when the request started.
Saving(r) == req[r].pc \in {"save_open", "save_write"} /\ req[r].handler

C30_SaveOnlyAfterTrain ==
    \A r \in Requests :
        /\ Saving(r) =>
                /\ model = Forest(req[r].run, TRUE)
                /\ metrics = MetricsOf(req[r].run)
                /\ trained_at = req[r].run
        /\ (Done(r, "train") /\ req[r].handler /\ req[r].out = "ok") =>
                /\ model = Forest(req[r].run, TRUE)
                /\ disk = FileOf(Pickle(Held))
        /\ (Done(r, "train") /\ req[r].handler /\ req[r].out # "ok") =>
                disk = req[r].file

\* A /train request that succeeded over the bundle of an earlier process.
C30_RetrainedOverOlderBundle ==
    \E r \in Requests :
        /\ Done(r, "train")
        /\ req[r].handler
        /\ req[r].out = "ok"
        /\ req[r].pre.model = OlderBundle.model
        /\ disk # FileOf(Pickle(OlderBundle))

====
